---- MODULE Spec2Model ----
(***************************************************************************)
(* Hockey team balancer (src/hockey_team_balancer_gui.py).                 *)
(*                                                                         *)
(* build_teams reads the sheet, keeps the selected rows as Player values,  *)
(* rejects fewer than 10 of them, and then runs up to ITERATIONS greedy    *)
(* attempts (attempt_build), each over a fresh shuffle of the players,     *)
(* keeping the attempt with the strictly smallest |totalA - totalB|.       *)
(*                                                                         *)
(* Spec         models build_teams (its row loop, its guard, its search    *)
(*              loop and every attempt_build call inside it).              *)
(* SpecAttempt  models one direct call of attempt_build(players_list),     *)
(*              which has no minimum roster size.                          *)
(***************************************************************************)
EXTENDS Integers, Sequences, FiniteSets, Bags

VARIABLES
    FORWARDS_TARGET,  \* module global, line 24
    DEFENCE_TARGET,   \* module global, line 25
    ITERATIONS,       \* module global, line 26
    df,               \* the sheet read at line 133: its columns and its rows
    players,          \* build_teams' list of Player; in a direct call, the caller's list
    pc,               \* position in build_teams / attempt_build
    error,            \* message of the ValueError raised, "" when none
    attempts,         \* iterations of the search loop begun so far
    players_list,     \* attempt_build: the part of the shuffled list not yet visited
    team_a,           \* attempt_build local
    team_b,           \* attempt_build local
    player,           \* attempt_build loop variable (None before the first visit)
    options,          \* attempt_build local, after the fallback replacement
    best_move,        \* attempt_build local: the committed (team, pos)
    fallbacks,        \* history: times the branch of line 95 was taken in this attempt
    best,             \* build_teams local: None or the retained pair of teams
    best_diff,        \* build_teams local: INF or the retained diff
    result            \* the value returned (None before the return)

vars == <<FORWARDS_TARGET, DEFENCE_TARGET, ITERATIONS, df, players, pc, error,
          attempts, players_list, team_a, team_b, player, options, best_move,
          fallbacks, best, best_diff, result>>

config == <<FORWARDS_TARGET, DEFENCE_TARGET, ITERATIONS>>
attempt_locals == <<players_list, team_a, team_b, player, options, best_move, fallbacks>>

(***************************************************************************)
(* Bounds of the model.                                                    *)
(***************************************************************************)
\* Largest number of rows of a sheet handed to build_teams.
MaxRows == 10
\* Largest value of ITERATIONS explored (the source sets 7000).
MaxIterations == 2
\* Largest list handed to attempt_build directly.
MaxAttemptPlayers == 9

(***************************************************************************)
(* Program constants and Python values.                                    *)
(***************************************************************************)
\* The literal of `len(players) < 10`.
MIN_PLAYERS == 10
\* float("inf"): every diff is an abs() of integers, so -1 is free to stand for it.
INF == -1
\* Python's None, for the locals that hold a tuple or a Player.
None == <<>>

required_columns == {"Selected", "Name", "Rank", "Position"}

Abs(x) == IF x < 0 THEN -x ELSE x

(***************************************************************************)
(* Cell conversions.  str.strip and str.upper on the vocabulary of the     *)
(* sheets below; a text already stripped / upper-cased maps to itself.     *)
(***************************************************************************)
Strip(s) ==
    CASE s = " Y " -> "Y"
      [] s = " d" -> "d"
      [] OTHER -> s

Upper(s) ==
    CASE s = "True" -> "TRUE"
      [] s = "yes" -> "YES"
      [] s = "no" -> "NO"
      [] s = "d" -> "D"
      [] s = "Flex" -> "FLEX"
      [] s = "g" -> "G"
      [] OTHER -> s

\* A Selected cell: isna is pd.isna(value), str is str(value).
is_selected(value) ==
    IF value.isna THEN FALSE
    ELSE Upper(Strip(value.str)) \in {"TRUE", "1", "YES", "Y"}

\* Player(name=row["Name"], rank=int(row["Rank"]), position=row["Position"].strip().upper())
\* Rank cells are integers here, on which int() is the identity.
MakePlayer(row) ==
    [name |-> row.Name, rank |-> row.Rank, position |-> Upper(Strip(row.Position))]

RECURSIVE SelectedPlayers(_)
SelectedPlayers(rows) ==
    IF rows = <<>> THEN <<>>
    ELSE IF is_selected(Head(rows).Selected)
         THEN <<MakePlayer(Head(rows))>> \o SelectedPlayers(Tail(rows))
         ELSE SelectedPlayers(Tail(rows))

(***************************************************************************)
(* Helpers.                                                                *)
(***************************************************************************)
empty_team == [F |-> <<>>, D |-> <<>>, total |-> 0]

\* Off by one: `<=` for `<`.
can_add_le(team, pos) ==
    IF pos = "F" THEN Len(team.F) <= FORWARDS_TARGET
    ELSE IF pos = "D" THEN Len(team.D) <= DEFENCE_TARGET
    ELSE FALSE

can_add(team, pos) ==
    IF pos = "F" THEN Len(team.F) < FORWARDS_TARGET
    ELSE IF pos = "D" THEN Len(team.D) < DEFENCE_TARGET
    ELSE FALSE

\* `team[pos] = [player]` for the append.
assign_player_replace(team, p, pos) ==
    [team EXCEPT ![pos] = <<p>>, !.total = @ + p.rank]

\* `team["total"] = player.rank` for the `+=`.
assign_player_settotal(team, p, pos) ==
    [team EXCEPT ![pos] = Append(@, p), !.total = p.rank]

assign_player(team, p, pos) ==
    [team EXCEPT ![pos] = Append(@, p), !.total = @ + p.rank]

(***************************************************************************)
(* attempt_build, one visit of the loop body.  An option is <<t, pos>>     *)
(* with t = "a" or "b" naming the dict the tuple refers to.                *)
(***************************************************************************)
\* The last branch taken for the literal "FLEX" only.
TeamOptions_flex_literal(t, team, p) ==
    IF p.position = "F"
    THEN (IF can_add(team, "F") THEN << <<t, "F">> >> ELSE <<>>)
    ELSE IF p.position = "D"
    THEN (IF can_add(team, "D") THEN << <<t, "D">> >> ELSE <<>>)
    ELSE IF p.position = "FLEX"
    THEN (IF can_add(team, "F") THEN << <<t, "F">> >> ELSE <<>>)
         \o (IF can_add(team, "D") THEN << <<t, "D">> >> ELSE <<>>)
    ELSE <<>>

\* Lines 81-93 for one team of `for team in [team_a, team_b]`.
TeamOptions(t, team, p) ==
    IF p.position = "F"
    THEN (IF can_add(team, "F") THEN << <<t, "F">> >> ELSE <<>>)
    ELSE IF p.position = "D"
    THEN (IF can_add(team, "D") THEN << <<t, "D">> >> ELSE <<>>)
    ELSE (IF can_add(team, "F") THEN << <<t, "F">> >> ELSE <<>>)
         \o (IF can_add(team, "D") THEN << <<t, "D">> >> ELSE <<>>)

ConstrainedOptions(ta, tb, p) == TeamOptions("a", ta, p) \o TeamOptions("b", tb, p)

\* The Defence pairs listed first.
FallbackOptions_defence_first == << <<"a", "D">>, <<"b", "D">>, <<"a", "F">>, <<"b", "F">> >>

\* Lines 96-101.
FallbackOptions == << <<"a", "F">>, <<"b", "F">>, <<"a", "D">>, <<"b", "D">> >>

\* Lines 95-101.
Options(ta, tb, p) ==
    IF ConstrainedOptions(ta, tb, p) = <<>> THEN FallbackOptions
    ELSE ConstrainedOptions(ta, tb, p)

\* The rank never added to the projected total.
ProjectedDiff_no_rank(opt, ta, tb, p) == Abs(ta.total - tb.total)

\* Lines 108-116.  `team == team_a` compares the dicts by value.
ProjectedDiff(opt, ta, tb, p) ==
    LET team == IF opt[1] = "a" THEN ta ELSE tb
    IN IF team = ta
       THEN Abs((ta.total + p.rank) - tb.total)
       ELSE Abs(ta.total - (tb.total + p.rank))

\* `<=` for `<`: the last of the equal options wins.
BetterMove_le(diff, bd) == IF bd = INF THEN TRUE ELSE diff <= bd

\* Line 118: `diff < best_diff`, best_diff starting at float("inf").
BetterMove(diff, bd) == IF bd = INF THEN TRUE ELSE diff < bd

\* Lines 103-120: the scan of the options; acc is <<best_move, best_diff>>.
RECURSIVE ScanOptions(_, _, _, _, _)
ScanOptions(opts, acc, ta, tb, p) ==
    IF opts = <<>> THEN acc
    ELSE LET d == ProjectedDiff(Head(opts), ta, tb, p)
         IN ScanOptions(Tail(opts),
                        IF BetterMove(d, acc[2]) THEN <<Head(opts), d>> ELSE acc,
                        ta, tb, p)

BestMove(ta, tb, p) == ScanOptions(Options(ta, tb, p), <<None, INF>>, ta, tb, p)[1]

RECURSIVE ListToBag(_)
ListToBag(s) ==
    IF s = <<>> THEN EmptyBag ELSE SetToBag({Head(s)}) (+) ListToBag(Tail(s))

\* random.shuffle (line 70): the orders a list can be left in, each once.
RECURSIVE Shuffles(_)
Shuffles(bag) ==
    IF bag = EmptyBag THEN {<<>>}
    ELSE UNION { { <<x>> \o rest : rest \in Shuffles(bag (-) SetToBag({x})) } :
                 x \in BagToSet(bag) }

\* Lines 70-73: the list is shuffled, two empty teams are started.
EnterAttempt(list) ==
    /\ players_list' = ListToBag(list)
    /\ team_a' = empty_team
    /\ team_b' = empty_team
    /\ player' = None
    /\ options' = <<>>
    /\ best_move' = None
    /\ fallbacks' = 0

\* Lines 77-122: the loop body for player p.
Visit(p) ==
    LET mv == BestMove(team_a, team_b, p)
    IN /\ player' = p
       /\ options' = Options(team_a, team_b, p)
       /\ best_move' = mv
       /\ fallbacks' = fallbacks
             + (IF ConstrainedOptions(team_a, team_b, p) = <<>> THEN 1 ELSE 0)
       /\ team_a' = IF mv[1] = "a" THEN assign_player(team_a, p, mv[2]) ELSE team_a
       /\ team_b' = IF mv[1] = "b" THEN assign_player(team_b, p, mv[2]) ELSE team_b
       /\ players_list' = players_list (-) SetToBag({p})

\* Lines 75-122 inside build_teams.  The list shuffled is the copy made at line
\* 163, which nothing else reads: its order shows only in the order of the
\* visits, and every element not yet visited can be the next one of a
\* uniformly random permutation.
Place ==
    /\ pc = "place"
    /\ \E p \in BagToSet(players_list) : Visit(p)
    /\ UNCHANGED <<config, df, players, pc, error, attempts, best, best_diff, result>>

(***************************************************************************)
(* build_teams.                                                            *)
(***************************************************************************)
\* Off by one: nine players pass.
TooFew_nine(ps) == Len(ps) < MIN_PLAYERS - 1

\* Line 155.
TooFew(ps) == Len(ps) < MIN_PLAYERS

\* Lines 133-159.
Load ==
    /\ pc = "start"
    /\ IF ~(required_columns \subseteq df.columns)
       THEN /\ pc' = "raised"
            /\ error' = "Excel must contain Selected, Name, Rank, Position"
            /\ UNCHANGED players
       ELSE /\ players' = SelectedPlayers(df.rows)
            /\ IF TooFew(players')
               THEN /\ pc' = "raised"
                    /\ error' = "Not enough selected players"
               ELSE /\ pc' = "loop"
                    /\ error' = ""
    /\ UNCHANGED <<config, df, attempts, attempt_locals, best, best_diff, result>>

\* Line 161 with another iteration to run, line 163 up to the first visit.
Iterate ==
    /\ pc = "loop"
    /\ attempts < ITERATIONS
    /\ attempts' = attempts + 1
    /\ pc' = "place"
    /\ EnterAttempt(players)
    /\ UNCHANGED <<config, df, players, error, best, best_diff, result>>

\* `<=` for `<`: a later attempt of equal diff replaces the retained one.
BetterAttempt_le(diff, bd) == IF bd = INF THEN TRUE ELSE diff <= bd

\* Line 166: `diff < best_diff`, best_diff starting at float("inf").
BetterAttempt(diff, bd) == IF bd = INF THEN TRUE ELSE diff < bd

\* The break left out.
LoopExit_never(bd) == FALSE

\* Lines 170-171: the break.
LoopExit(bd) == bd = 0

\* Lines 164-171, after attempt_build returned team_a, team_b.
EndIteration ==
    /\ pc = "place"
    /\ players_list = EmptyBag
    /\ LET diff == Abs(team_a.total - team_b.total)
       IN /\ IF BetterAttempt(diff, best_diff)
             THEN /\ best_diff' = diff
                  /\ best' = <<team_a, team_b>>
             ELSE UNCHANGED <<best, best_diff>>
          /\ pc' = IF LoopExit(best_diff') THEN "return" ELSE "loop"
    /\ UNCHANGED <<config, df, players, error, attempts, attempt_locals, result>>

\* Line 173, reached by the break or by the end of range(ITERATIONS).
Return ==
    /\ pc \in {"return", "loop"}
    /\ pc = "loop" => attempts >= ITERATIONS
    /\ result' = <<best[1], best[2], best_diff>>
    /\ pc' = "done"
    /\ UNCHANGED <<config, df, players, error, attempts, attempt_locals, best, best_diff>>

(***************************************************************************)
(* A direct call attempt_build(players).                                   *)
(***************************************************************************)
\* Lines 68-73.  The shuffle is in place: it leaves the caller's list, players,
\* in any of its orders.
AttemptCall ==
    /\ pc = "call"
    /\ pc' = "place"
    /\ players' \in Shuffles(ListToBag(players))
    /\ EnterAttempt(players')
    /\ UNCHANGED <<config, df, error, attempts, best, best_diff, result>>

\* Lines 75-122 in a direct call: the next element of the shuffled list.
PlaceNext ==
    /\ pc = "place"
    /\ players_list # EmptyBag
    /\ Visit(players[Len(players) - BagCardinality(players_list) + 1])
    /\ UNCHANGED <<config, df, players, pc, error, attempts, best, best_diff, result>>

\* Line 124.
AttemptReturn ==
    /\ pc = "place"
    /\ players_list = EmptyBag
    /\ result' = <<team_a, team_b>>
    /\ pc' = "returned"
    /\ UNCHANGED <<config, df, players, error, attempts, attempt_locals, best, best_diff>>

(***************************************************************************)
(* Inputs.  A sheet holds any number of rows of a Forward (rank 1) and of  *)
(* a Defence player (rank 2), then possibly one more row: a Flex player,   *)
(* a player of some other position, or a row that is not selected.         *)
(***************************************************************************)
Text(s) == [isna |-> FALSE, str |-> s]
NaN == [isna |-> TRUE, str |-> "nan"]

ForwardRow == [Selected |-> Text("True"), Name |-> "Ann", Rank |-> 1, Position |-> "F"]
DefenceRow == [Selected |-> Text("yes"), Name |-> "Bo", Rank |-> 2, Position |-> " d"]
OtherRows ==
    { [Selected |-> Text(" Y "), Name |-> "Cy", Rank |-> 3, Position |-> "Flex"],
      [Selected |-> Text("1"), Name |-> "Di", Rank |-> 2, Position |-> "g"],
      [Selected |-> Text("no"), Name |-> "Ed", Rank |-> 1, Position |-> "F"],
      [Selected |-> NaN, Name |-> "Flo", Rank |-> 3, Position |-> " d"] }

Rep(x, n) == [j \in 1..n |-> x]

Sheets(n) ==
    { rows \in { Rep(ForwardRow, f) \o Rep(DefenceRow, d) \o x :
                   f \in 0..n, d \in 0..n, x \in {<<>>} \cup {<<r>> : r \in OtherRows} } :
        Len(rows) <= n }

\* Lists for a direct call: Forwards of rank 1 and Defence players of rank 2,
\* then possibly one more player: a Forward of rank 2, a Flex player or a
\* player of another position.
Forward1 == [name |-> "Ann", rank |-> 1, position |-> "F"]
Defence2 == [name |-> "Bo", rank |-> 2, position |-> "D"]
OtherPlayers ==
    { [name |-> "Gus", rank |-> 2, position |-> "F"],
      [name |-> "Cy", rank |-> 3, position |-> "FLEX"],
      [name |-> "Di", rank |-> 2, position |-> "G"] }

Lists(n) ==
    { l \in { Rep(Forward1, f) \o Rep(Defence2, d) \o x :
                f \in 0..n, d \in 0..n,
                x \in {<<>>} \cup {<<p>> : p \in OtherPlayers} } :
        Len(l) <= n }

\* The targets of the source (lines 24-25), of the spec's fallback test, and
\* the smallest ones.
DefaultTargets == <<6, 4>>
TargetConfigs == { <<4, 4>>, <<1, 1>> }

Idle ==
    /\ error = ""
    /\ attempts = 0
    /\ players_list = EmptyBag
    /\ team_a = None
    /\ team_b = None
    /\ player = None
    /\ options = <<>>
    /\ best_move = None
    /\ fallbacks = 0
    /\ best = None
    /\ best_diff = INF
    /\ result = None

Init ==
    /\ FORWARDS_TARGET = DefaultTargets[1]
    /\ DEFENCE_TARGET = DefaultTargets[2]
    /\ ITERATIONS \in 1..MaxIterations
    /\ df \in [columns : {required_columns, required_columns \ {"Rank"}},
               rows : Sheets(MaxRows)]
    /\ players = <<>>
    /\ pc = "start"
    /\ Idle

Next == Load \/ Iterate \/ Place \/ EndIteration \/ Return

Spec == Init /\ [][Next]_vars

InitAttempt ==
    /\ \E t \in TargetConfigs : FORWARDS_TARGET = t[1] /\ DEFENCE_TARGET = t[2]
    /\ ITERATIONS = 7000
    /\ df = [columns |-> {}, rows |-> <<>>]
    /\ players \in Lists(MaxAttemptPlayers)
    /\ pc = "call"
    /\ Idle

NextAttempt == AttemptCall \/ PlaceNext \/ AttemptReturn

SpecAttempt == InitAttempt /\ [][NextAttempt]_vars

(***************************************************************************)
(* Properties.                                                             *)
(***************************************************************************)
Range(f) == {f[i] : i \in DOMAIN f}

\* The players a pair of teams holds, with multiplicity.
TeamsBag(a, b) == ListToBag(a.F \o a.D \o b.F \o b.D)

RECURSIVE SumRanks(_)
SumRanks(l) == IF l = <<>> THEN 0 ELSE Head(l).rank + SumRanks(Tail(l))

\* The rows of the sheet whose Selected cell means yes.
EligibleRows ==
    {i \in DOMAIN df.rows :
        df.rows[i].Selected \in {Text("True"), Text("yes"), Text(" Y "), Text("1")}}

AttemptOver == pc = "place" /\ players_list = EmptyBag

\* C1: with at least 10 eligible players, the teams every attempt builds and the
\* teams build_teams returns hold, over A.F, A.D, B.F and B.D together, exactly
\* the eligible players, each as many times as the sheet lists it: none is
\* dropped and none appears twice.
C1_EveryPlayerOnce ==
    /\ AttemptOver => TeamsBag(team_a, team_b) = ListToBag(players)
    /\ pc = "done" =>
          /\ Cardinality(EligibleRows) >= 10
          /\ Len(players) = Cardinality(EligibleRows)
          /\ TeamsBag(result[1], result[2]) = ListToBag(players)
          /\ Len(result[1].F) + Len(result[1].D) + Len(result[2].F) + Len(result[2].D)
                = Cardinality(EligibleRows)

\* A return of ten players, three of them different from one another.
C1_Witness ==
    /\ pc = "done"
    /\ Len(players) = 10
    /\ Cardinality(BagToSet(TeamsBag(result[1], result[2]))) = 3

WithinTargets(t) == Len(t.F) <= FORWARDS_TARGET /\ Len(t.D) <= DEFENCE_TARGET

\* C2: while the fallback has not fired in an attempt, both teams hold at most
\* FORWARDS_TARGET Forwards and DEFENCE_TARGET Defence players after every
\* assignment, and so do the teams attempt_build returns.
C2_WithinTargetsWithoutFallback ==
    /\ (team_a # None /\ fallbacks = 0) => WithinTargets(team_a) /\ WithinTargets(team_b)
    /\ (pc = "returned" /\ fallbacks = 0) =>
          WithinTargets(result[1]) /\ WithinTargets(result[2])

\* Both Forward collections filled to the target, no fallback.
C2_Witness ==
    /\ pc = "returned"
    /\ fallbacks = 0
    /\ Len(result[1].F) = FORWARDS_TARGET
    /\ Len(result[2].F) = FORWARDS_TARGET
    /\ FORWARDS_TARGET = 4

TotalIsSum(t) == t.total = SumRanks(t.F) + SumRanks(t.D)

\* C3: after every assign_player call of a constructive pass, fallback
\* placements included, each team's total is the sum of the ranks of the
\* players in its F and D collections; the same holds of the retained copies.
C3_TotalIsSumOfRanks ==
    /\ team_a # None => TotalIsSum(team_a) /\ TotalIsSum(team_b)
    /\ best # None => TotalIsSum(best[1]) /\ TotalIsSum(best[2])

\* Right after a fallback placement.
C3_Witness ==
    /\ pc = "place"
    /\ options = FallbackOptions
    /\ team_a.total > 0
    /\ team_b.total > 0

\* C4: with fewer than 10 eligible rows build_teams ends in the error "Not
\* enough selected players" before any attempt: no iteration is begun, nothing
\* is shuffled, no team exists, nothing is retained and nothing is returned.
C4_TooFewPlayersRaise ==
    (pc # "start" /\ required_columns \subseteq df.columns /\ Cardinality(EligibleRows) < 10)
        => /\ pc = "raised"
           /\ error = "Not enough selected players"
           /\ attempts = 0
           /\ players_list = EmptyBag
           /\ team_a = None
           /\ team_b = None
           /\ best = None
           /\ result = None

\* Ten rows, nine of them selected.
C4_Witness ==
    /\ pc = "raised"
    /\ Len(df.rows) = 10
    /\ Cardinality(EligibleRows) = 9

CurrentDiff == Abs(team_a.total - team_b.total)

\* C5: in every step of a search the retained diff does not increase; the
\* retained pair changes only at the end of an attempt whose diff is strictly
\* smaller (it then is that attempt's pair and diff), an attempt of equal or
\* larger diff leaves pair and diff as they were, and the value returned is the
\* retained pair with a diff equal to |totalA - totalB| of that pair.
C5_BestKeptUnlessStrictlySmaller ==
    [][ /\ best_diff # INF => (best_diff' # INF /\ best_diff' <= best_diff)
        /\ best' # best =>
              /\ AttemptOver
              /\ best_diff = INF \/ CurrentDiff < best_diff
              /\ best' = <<team_a, team_b>>
              /\ best_diff' = CurrentDiff
        /\ (AttemptOver /\ pc' # "place" /\ best_diff # INF /\ CurrentDiff >= best_diff) =>
              (best' = best /\ best_diff' = best_diff)
        /\ (AttemptOver /\ pc' # "place" /\ (best_diff = INF \/ CurrentDiff < best_diff)) =>
              (best' = <<team_a, team_b>> /\ best_diff' = CurrentDiff)
        /\ pc' = "done" =>
              /\ result' = <<best[1], best[2], best_diff>>
              /\ result'[3] = Abs(result'[1].total - result'[2].total)
      ]_vars

\* A second attempt of the same diff, with other teams, left the first retained.
C5_Witness ==
    /\ pc = "done"
    /\ attempts = 2
    /\ best_diff = CurrentDiff
    /\ best # <<team_a, team_b>>

\* C6: no iteration begins or runs once the retained diff is 0 (the loop is left
\* at the end of the first iteration that makes it 0); a loop left otherwise has
\* run exactly ITERATIONS attempts.
C6_StopsAtZeroOrAfterAllIterations ==
    /\ attempts <= ITERATIONS
    /\ pc \in {"loop", "place"} => best_diff # 0
    /\ pc = "return" => best_diff = 0
    /\ (pc = "done" /\ best_diff # 0) => attempts = ITERATIONS
    /\ pc = "done" => attempts >= 1

\* Left at the first of two iterations.
C6_Witness ==
    /\ pc = "done"
    /\ best_diff = 0
    /\ attempts < ITERATIONS

NineForwards == Len(players) = 9 /\ \A i \in DOMAIN players : players[i].position = "F"

\* C7: with FORWARDS_TARGET = 4 and a list of 9 Forwards, whatever the order,
\* every visit commits a move, and the teams returned hold all 9 players in
\* their Forward collections, 5 on one team and 4 on the other, the fallback
\* having fired exactly once.
C7_NineForwardsAllPlaced ==
    (FORWARDS_TARGET = 4 /\ NineForwards) =>
        /\ error = ""
        /\ player # None => best_move # None
        /\ pc = "returned" =>
              /\ TeamsBag(result[1], result[2]) = ListToBag(players)
              /\ {Len(result[1].F), Len(result[2].F)} = {4, 5}
              /\ result[1].D = <<>>
              /\ result[2].D = <<>>
              /\ fallbacks = 1

\* Forwards of both ranks, the ninth on team B.
C7_Witness ==
    /\ FORWARDS_TARGET = 4
    /\ NineForwards
    /\ pc = "returned"
    /\ Len(result[2].F) = 5
    /\ Cardinality(Range(players)) = 2

Team(t) == IF t = "a" THEN team_a ELSE team_b
Slots == {<<t, r>> : t \in {"a", "b"}, r \in {"F", "D"}}
TargetOf(r) == IF r = "F" THEN FORWARDS_TARGET ELSE DEFENCE_TARGET
\* The length of a collection before the last visit committed its move.
LenBefore(o) == Len(Team(o[1])[o[2]]) - (IF best_move = o THEN 1 ELSE 0)
OpenSlots == {o \in Slots : LenBefore(o) < TargetOf(o[2])}
Opaque(p) == p.position \notin {"F", "D", "FLEX"}

\* C8 as stated: a player whose role is neither Forward, Defence nor Flex gets
\* no option under the normal rules and is placed only through the fallback.
C8_OpaquePlacedOnlyByFallback ==
    (player # None /\ Opaque(player)) => options = FallbackOptions

\* C8 amended: a player whose role is neither Forward nor Defence, Flex or any
\* other literal alike, is offered exactly the (team, role) slots below their
\* target, and is placed through the fallback only when all four are full.
C8_OpaqueTreatedAsFlex ==
    (player # None /\ player.position \notin {"F", "D"}) =>
        IF OpenSlots = {}
        THEN options = FallbackOptions
        ELSE /\ Range(options) = OpenSlots
             /\ Len(options) = Cardinality(OpenSlots)
             /\ options # FallbackOptions

\* A player of position "G" placed on Defence by the normal rules.
C8_Witness ==
    /\ player # None
    /\ Opaque(player)
    /\ options # FallbackOptions
    /\ best_move[2] = "D"

\* The totals before the last visit committed its move, and the gap an option
\* would have made of them.
TotalBefore(t) == Team(t).total - (IF best_move[1] = t THEN player.rank ELSE 0)
Gap(o) ==
    IF o[1] = "a"
    THEN Abs((TotalBefore("a") + player.rank) - TotalBefore("b"))
    ELSE Abs(TotalBefore("a") - (TotalBefore("b") + player.rank))

\* C9: the committed option is one of the candidates, no candidate has a smaller
\* projected gap, no candidate of equal gap is on team A when team B was chosen
\* or is the Forward slot of the chosen team when its Defence slot was chosen,
\* and the player is the last of the chosen collection.
C9_MinimumGapFirstEncountered ==
    player # None =>
        /\ best_move \in Range(options)
        /\ \A o \in Range(options) :
              /\ Gap(best_move) <= Gap(o)
              /\ Gap(o) = Gap(best_move) =>
                    /\ ~(o[1] = "a" /\ best_move[1] = "b")
                    /\ ~(o[1] = best_move[1] /\ o[2] = "F" /\ best_move[2] = "D")
        /\ LET l == Team(best_move[1])[best_move[2]] IN l[Len(l)] = player

\* Four constrained options of one and the same gap, the teams not empty.
C9_Witness ==
    /\ player # None
    /\ Len(options) = 4
    /\ options # FallbackOptions
    /\ TotalBefore("a") > 0
    /\ \A o \in Range(options) : Gap(o) = Gap(best_move)

\* C10: a fallback placement commits the player to a Forward collection,
\* whatever the player's role, so that no team ever holds more than
\* DEFENCE_TARGET Defence players.
C10_FallbackCommitsToForward ==
    /\ (player # None /\ options = FallbackOptions) => best_move[2] = "F"
    /\ team_a # None =>
          /\ Len(team_a.D) <= DEFENCE_TARGET
          /\ Len(team_b.D) <= DEFENCE_TARGET

\* A Defence player, both Defence collections full, committed as a Forward
\* beyond the Forward target.
C10_Witness ==
    /\ player # None
    /\ player.position = "D"
    /\ options = FallbackOptions
    /\ best_move[2] = "F"
    /\ Len(Team(best_move[1]).F) > FORWARDS_TARGET

====
